---- MODULE Spec2Model ----
(***************************************************************************)
(* Model of pantalaimon's D-Bus control bridge (pantalaimon/ui.py):        *)
(* the shared IdCounter, the Control and Devices interfaces, the device    *)
(* list cache and the GLib polling callback GlibT.message_callback; and    *)
(* of PanConfig.read (pantalaimon/config.py).                              *)
(***************************************************************************)
EXTENDS Integers, Sequences, FiniteSets, TLC

\* ------------------------------------------------------------------ bounds
MaxCalls == 3          \* command-issuing calls made by the D-Bus clients
MaxEvents == 3         \* messages the daemon puts on receive_queue
MaxStoreChanges == 1   \* times the daemon rewrites the device store
MaxInputs == 2         \* calls + events + store changes in the whole bridge
MaxRuns == 2           \* calls of GlibT.run
NumCallers == 2        \* client threads of the concurrent specification
MaxSections == 2       \* non-Default sections of a configuration file

\* ------------------------------------------------------- values and inputs
None == "None"

PanUsers == {"alice", "bob"}          \* pan_user arguments
StorePanUsers == {"alice"}            \* pan users the daemon manages
UserIds == {"@bob", "@carol"}
DeviceIds == {"DEV1"}
KeyOrder == <<"alice", "bob", "@bob", "@carol", "DEV1", "DEV2">>

KeyArgs == {<<"/tmp/k.txt", "pw">>}                 \* (filepath, passphrase)
DeviceArgs == {<<"@bob", "DEV1">>}                  \* (user_id, device_id)
UserLists == {<<<<"alice", "ALICEDEV">>>>}             \* store.load_all_users()

VARIABLES
    message_id,        \* IdCounter._message_id
    send_queue,        \* GlibT.send_queue: commands for the daemon
    receive_queue,     \* GlibT.receive_queue: messages from the daemon
    unfinished_tasks,  \* receive_queue's count of put() without task_done()
    device_list,       \* Devices.device_list
    store,             \* the devices held by PanStore
    users,             \* Control.users
    loop,              \* GlibT.loop
    running,           \* a GLib main loop is iterating the default context
    sources,           \* timeout sources attached by GLib.timeout_add
    issued,            \* history: ids read from the counter, in read order
    returned,          \* history: ids returned by the calls, in return order
    handed,            \* history: commands the daemon took from send_queue
    received,          \* history: messages message_callback took, with outcome
    signals,           \* history: D-Bus signals emitted
    last,              \* the operation that ran last, its arguments and result
    nstore,            \* number of store changes so far
    nruns,             \* number of run() calls so far
    pc, ret, tmp, call, \* the client threads of the concurrent specification
    stop_requested,    \* history: GlibT.stop has been called
    config_file,       \* PanConfig.config_file: the parsed file
    config_result      \* outcome of PanConfig.read

vars == <<message_id, send_queue, receive_queue, unfinished_tasks, device_list,
          store, users, loop, running, sources, issued, returned, handed,
          received, signals, last, nstore, nruns, pc, ret, tmp, call,
          stop_requested, config_file, config_result>>

Callers == 1..NumCallers

\* ------------------------------------------------------------ dictionaries
\* A Python dict is a function on its key set; iteration follows KeyOrder.
Keys(d) == SelectSeq(KeyOrder, LAMBDA k : k \in DOMAIN d)

Values(d) == [i \in 1..Len(Keys(d)) |-> d[Keys(d)[i]]]

\* "not d.get(k, None)": the key is missing or its value is an empty dict
NotGet(d, k) == IF k \in DOMAIN d THEN DOMAIN d[k] = {} ELSE TRUE

RECURSIVE Concat(_)
Concat(ss) == IF ss = <<>> THEN <<>> ELSE Head(ss) \o Concat(Tail(ss))

Range(s) == {s[i] : i \in DOMAIN s}

\* --------------------------------------------------------------- the store
Device(user_id, device_id) ==
    [user_id |-> user_id, device_id |-> device_id, trust |-> "unverified"]

DeviceMaps(user_id) ==
    {[d \in ds |-> Device(user_id, d)] : ds \in SUBSET DeviceIds}

AllDeviceMaps == UNION {DeviceMaps(u) : u \in UserIds}

UserMaps ==
    UNION {{f \in [us -> AllDeviceMaps] : \A u \in us : f[u] \in DeviceMaps(u)}
           : us \in SUBSET UserIds}

\* every value PanStore.load_all_devices() can return over the small key sets
Snapshots == UNION {[ps -> UserMaps] : ps \in SUBSET StorePanUsers}

\* PanStore.load_all_devices(): the devices the store holds now
load_all_devices == store

\* ------------------------------------------------------------ IdCounter
\* IdCounter.message_id, executed without interruption: the value returned
\* and the value left in _message_id.
IdCounterRet(c) == c

\* the increment of line 31 left out
IdCounterNextStuck(c) == c

IdCounterNext(c) == c + 1

\* --------------------------------------------------------------- commands
\* The message classes of pantalaimon.thread_messages: the class, the id and
\* the arguments given to the constructor.
Message(type, id, pan_user, args) ==
    [type |-> type, message_id |-> id, pan_user |-> pan_user, args |-> args]

\* the message put at the head of the queue
PutFront(queue, message) == <<message>> \o queue

\* queue.Queue.put
Put(queue, message) == Append(queue, message)

ControlOps == {"ExportKeys", "ImportKeys"}
DevicesOps == {"Verify", "UnVerify", "StartKeyVerification",
               "CancelKeyVerification", "ConfirmKeyVerification",
               "AcceptKeyVerification"}
CommandOps == ControlOps \cup DevicesOps

\* the classes of ConfirmKeyVerification and AcceptKeyVerification exchanged
MessageClassSwapped(op) ==
    CASE op = "ExportKeys" -> "ExportKeysMessage"
      [] op = "ImportKeys" -> "ImportKeysMessage"
      [] op = "Verify" -> "DeviceVerifyMessage"
      [] op = "UnVerify" -> "DeviceUnverifyMessage"
      [] op = "StartKeyVerification" -> "StartSasMessage"
      [] op = "CancelKeyVerification" -> "CancelSasMessage"
      [] op = "ConfirmKeyVerification" -> "AcceptSasMessage"
      [] op = "AcceptKeyVerification" -> "ConfirmSasMessage"

\* the message class each method instantiates
MessageClass(op) ==
    CASE op = "ExportKeys" -> "ExportKeysMessage"
      [] op = "ImportKeys" -> "ImportKeysMessage"
      [] op = "Verify" -> "DeviceVerifyMessage"
      [] op = "UnVerify" -> "DeviceUnverifyMessage"
      [] op = "StartKeyVerification" -> "StartSasMessage"
      [] op = "CancelKeyVerification" -> "CancelSasMessage"
      [] op = "ConfirmKeyVerification" -> "ConfirmSasMessage"
      [] op = "AcceptKeyVerification" -> "AcceptSasMessage"

\* The body shared by the eight command methods: build the message with the
\* next id, put it on the queue, return message.message_id.
Command(op, pan_user, args) ==
    LET message == Message(MessageClass(op), IdCounterRet(message_id),
                           pan_user, args)
    IN  /\ message_id' = IdCounterNext(message_id)
        /\ send_queue' = Put(send_queue, message)
        /\ issued' = Append(issued, message.message_id)
        /\ returned' = Append(returned, message.message_id)
        /\ last' = [op |-> op, args |-> <<pan_user>> \o args,
                    result |-> message.message_id]
        /\ UNCHANGED <<receive_queue, unfinished_tasks, device_list, store,
                       users, loop, running, sources, handed, received,
                       signals, nstore, nruns, pc, ret, tmp, call, stop_requested, config_file,
                   config_result>>

ExportKeys ==
    \E pan_user \in StorePanUsers, a \in KeyArgs : Command("ExportKeys", pan_user, a)

ImportKeys ==
    \E pan_user \in StorePanUsers, a \in KeyArgs : Command("ImportKeys", pan_user, a)

Verify ==
    \E pan_user \in StorePanUsers, a \in DeviceArgs : Command("Verify", pan_user, a)

UnVerify ==
    \E pan_user \in StorePanUsers, a \in DeviceArgs : Command("UnVerify", pan_user, a)

StartKeyVerification ==
    \E pan_user \in StorePanUsers, a \in DeviceArgs :
        Command("StartKeyVerification", pan_user, a)

CancelKeyVerification ==
    \E pan_user \in StorePanUsers, a \in DeviceArgs :
        Command("CancelKeyVerification", pan_user, a)

ConfirmKeyVerification ==
    \E pan_user \in StorePanUsers, a \in DeviceArgs :
        Command("ConfirmKeyVerification", pan_user, a)

AcceptKeyVerification ==
    \E pan_user \in StorePanUsers, a \in DeviceArgs :
        Command("AcceptKeyVerification", pan_user, a)

\* Arguments no daemon can act on: an empty pan_user, an empty file path and
\* passphrase, a user id that is no Matrix id and an empty device id.  They
\* are strings, so the D-Bus signature accepts them.
MalformedPanUsers == {""}
MalformedKeyArgs == {<<"", "">>}
MalformedDeviceArgs == {<<"bob", "">>}

\* a command method called with such arguments: the same body runs
MalformedCall ==
    \E op \in CommandOps, pan_user \in MalformedPanUsers :
        \E a \in (IF op \in ControlOps THEN MalformedKeyArgs
                  ELSE MalformedDeviceArgs) :
            Command(op, pan_user, a)

\* ------------------------------------------------------------------ reads
\* Devices.List on a given cache
DevicesList(cache, pan_user) ==
    IF NotGet(cache, pan_user) THEN <<>>
    ELSE LET device_store == cache[pan_user]
         IN  Concat([i \in 1..Len(Values(device_store)) |->
                        Values(Values(device_store)[i])])

\* user_id ignored: the devices of every user of the pan user
DevicesListUserDevicesAll(cache, pan_user, user_id) ==
    DevicesList(cache, pan_user)

\* Devices.ListUserDevices on a given cache
DevicesListUserDevices(cache, pan_user, user_id) ==
    IF NotGet(cache, pan_user) THEN <<>>
    ELSE LET device_store == cache[pan_user]
         IN  IF NotGet(device_store, user_id) THEN <<>>
             ELSE Values(device_store[user_id])

\* a read that takes an id from the shared counter
ReadConsumesId(op, args, result) ==
    /\ last' = [op |-> op, args |-> args, result |-> result]
    /\ message_id' = IdCounterNext(message_id)
    /\ UNCHANGED <<send_queue, receive_queue, unfinished_tasks,
                   device_list, store, users, loop, running, sources,
                   issued, returned, handed, received, signals, nstore, nruns,
                   pc, ret, tmp, call, stop_requested, config_file,
                   config_result>>

\* the three methods that only return a value
Read(op, args, result) ==
    /\ last' = [op |-> op, args |-> args, result |-> result]
    /\ UNCHANGED <<message_id, send_queue, receive_queue, unfinished_tasks,
                   device_list, store, users, loop, running, sources,
                   issued, returned, handed, received, signals, nstore, nruns,
                   pc, ret, tmp, call, stop_requested, config_file,
                   config_result>>

ListUsers == Read("ListUsers", <<>>, users)

List ==
    \E pan_user \in PanUsers :
        Read("List", <<pan_user>>, DevicesList(device_list, pan_user))

ListUserDevices ==
    \E pan_user \in PanUsers, user_id \in UserIds :
        Read("ListUserDevices", <<pan_user, user_id>>,
             DevicesListUserDevices(device_list, pan_user, user_id))

\* ------------------------------------------------------------ daemon core
\* the daemon takes the oldest command from send_queue
DaemonGet ==
    /\ send_queue # <<>>
    /\ send_queue' = Tail(send_queue)
    /\ handed' = Append(handed, Head(send_queue))
    /\ last' = [op |-> "DaemonGet", args |-> <<>>, result |-> Head(send_queue)]
    /\ UNCHANGED <<message_id, receive_queue, unfinished_tasks, device_list,
                   store, users, loop, running, sources, issued, returned, received,
                   signals, nstore, nruns, pc, ret, tmp, call, stop_requested, config_file,
                   config_result>>

\* --------------------------------------------------------------- config
\* an option the file does not set
Unset == "unset"

\* PanConfigParser.__init__: the built-in defaults
defaults ==
    [SSL |-> "True", ListenAddress |-> "localhost", ListenPort |-> "8009",
     LogLevel |-> "warnig"]

\* Values of the options in a file.  "https://example.org/%2F" holds a
\* percent sign that is not interpolation syntax; "nope" is no IP address.
HomeserverValues == {Unset, "https://example.org", "https://example.org/%2F"}
ListenAddressValues == {Unset, "localhost", "127.0.0.1", "::1", "nope"}
ListenPortValues == {Unset, "8009", "8010"}

\* a non-Default section; its name is its position in the file
Sections ==
    [Homeserver : HomeserverValues, ListenAddress : ListenAddressValues,
     ListenPort : ListenPortValues]

\* the [Default] section of the file, which may override the listen port
DefaultSections ==
    [Homeserver : {Unset}, ListenAddress : {Unset},
     ListenPort : {Unset, "8010"}]

ConfigFiles ==
    [Default : DefaultSections,
     sections : UNION {[1..n -> Sections] : n \in 0..MaxSections}]

\* SectionProxy.get: the section's value, else the file's [Default], else
\* the built-in default, else nothing
Get(file, i, option) ==
    IF file.sections[i][option] # Unset THEN file.sections[i][option]
    ELSE IF file.Default[option] # Unset THEN file.Default[option]
    ELSE IF option \in DOMAIN defaults THEN defaults[option]
    ELSE Unset

\* BasicInterpolation.before_get raises InterpolationSyntaxError for a "%"
\* followed by neither "%" nor "("
Interpolates(value) == value # "https://example.org/%2F"

\* ipaddress.ip_address raises ValueError for anything else
IsAddress(value) == value \in {"127.0.0.1", "::1"}

\* ipaddress.ip_address
ip_address(value) ==
    CASE value = "127.0.0.1" -> [version |-> 4, address |-> "127.0.0.1"]
      [] value = "::1" -> [version |-> 6, address |-> "::1"]

\* parse_address
parse_address(value) ==
    IF value = "localhost" THEN ip_address("127.0.0.1") ELSE ip_address(value)

\* parse_address raises ValueError
parse_address_raises(value) == value # "localhost" /\ ~IsAddress(value)

\* SectionProxy.getint
getint(value) ==
    CASE value = "8009" -> 8009
      [] value = "8010" -> 8010

\* the outcome of PanConfig.read: the exception that left it, if any, and
\* self.servers as the listen pairs stored
Outcome(error, why, servers) ==
    [error |-> error, why |-> why, servers |-> servers]

NotRead == Outcome("unread", None, <<>>)

\* PanConfig.read, lines 130-165: the loop over the sections from section i
\* on, in file order
RECURSIVE ReadSections(_, _, _, _)
ReadSections(file, i, listen_set, servers) ==
    IF i > Len(file.sections)
    THEN Outcome(None, None, servers)
    ELSE LET homeserver == Get(file, i, "Homeserver")
             listen_address == Get(file, i, "ListenAddress")
             listen_port == Get(file, i, "ListenPort")
         IN  IF ~Interpolates(homeserver)
             THEN Outcome("InterpolationSyntaxError", "Homeserver", servers)
             ELSE IF homeserver = Unset
             THEN Outcome("PanConfigError", "Homeserver", servers)
             ELSE IF parse_address_raises(listen_address)
             THEN Outcome("PanConfigError", "ValueError", servers)
             ELSE LET listen_tuple == <<parse_address(listen_address),
                                        getint(listen_port)>>
                  IN  IF listen_tuple \in listen_set
                      THEN Outcome("PanConfigError", "duplicate", servers)
                      ELSE ReadSections(file, i + 1,
                                        listen_set \cup {listen_tuple},
                                        Append(servers, listen_tuple))

\* PanConfig.read
PanConfigRead(file) == ReadSections(file, 1, {}, <<>>)

read ==
    /\ config_result.error = "unread"
    /\ config_result' = PanConfigRead(config_file)
    /\ last' = [op |-> "read", args |-> <<>>, result |-> None]
    /\ UNCHANGED <<message_id, send_queue, receive_queue, unfinished_tasks,
                   device_list, store, users, loop, running, sources, issued,
                   returned, handed, received, signals, nstore, nruns, pc,
                   ret, tmp, call, stop_requested, config_file>>

\* ------------------------------------------------------------------- init
\* GlibT.__attrs_post_init__: the store is opened, the users are loaded, one
\* IdCounter is shared by both interfaces and Devices.__init__ loads the
\* device list.
InitBridge ==
    /\ store \in Snapshots
    /\ users \in UserLists
    /\ message_id = 0
    /\ send_queue = <<>>
    /\ receive_queue = <<>>
    /\ unfinished_tasks = 0
    /\ device_list = load_all_devices
    /\ loop = None
    /\ running = FALSE
    /\ sources = 0
    /\ issued = <<>>
    /\ returned = <<>>
    /\ handed = <<>>
    /\ received = <<>>
    /\ signals = <<>>
    /\ last = [op |-> "__init__", args |-> <<>>, result |-> None]
    /\ nstore = 0
    /\ nruns = 0
    /\ pc = [t \in Callers |-> "idle"]
    /\ ret = [t \in Callers |-> 0]
    /\ tmp = [t \in Callers |-> 0]
    /\ call = [t \in Callers |-> None]
    /\ stop_requested = FALSE

\* the bridge constructed, no configuration file read
Init ==
    /\ InitBridge
    /\ config_file = None
    /\ config_result = NotRead

\* ------------------------------------------------- messages of the daemon
SasArgs == {<<"alice", "@bob", "DEV1", "txn1">>,
            <<"bob", "@carol", "DEV2", "txn2">>}
Emoji == <<<<"dog", "Dog">>, <<"cat", "Cat">>>>
ResponseIds == {0, 1}

Sas(type, a) ==
    [type |-> type, pan_user |-> a[1], user_id |-> a[2], device_id |-> a[3],
     transaction_id |-> a[4]]

UpdateDevicesMessage == [type |-> "UpdateDevicesMessage"]
UpdateUsersMessage == [type |-> "UpdateUsersMessage"]
InviteSasSignals == {Sas("InviteSasSignal", a) : a \in SasArgs}
ShowSasSignals ==
    {[type |-> "ShowSasSignal", pan_user |-> a[1], user_id |-> a[2],
      device_id |-> a[3], transaction_id |-> a[4], emoji |-> Emoji]
     : a \in SasArgs}
SasDoneSignals == {Sas("SasDoneSignal", a) : a \in SasArgs}
\* the verification-cancelled event; ui.py imports no class for it
SasCancelledEvents ==
    {[type |-> "verification-cancelled", pan_user |-> a[1], user_id |-> a[2],
      device_id |-> a[3], transaction_id |-> a[4],
      reason |-> "User cancelled", code |-> "m.user"] : a \in SasArgs}
DaemonResponses ==
    {[type |-> "DaemonResponse", message_id |-> i, pan_user |-> "alice",
      code |-> "ok", message |-> "exported"] : i \in ResponseIds}

Events ==
    {UpdateDevicesMessage, UpdateUsersMessage} \cup InviteSasSignals
        \cup ShowSasSignals \cup SasDoneSignals \cup SasCancelledEvents
        \cup DaemonResponses

\* the daemon puts a message on receive_queue
DaemonPut(message) ==
    /\ receive_queue' = Put(receive_queue, message)
    /\ unfinished_tasks' = unfinished_tasks + 1
    /\ last' = [op |-> "DaemonPut", args |-> <<message>>, result |-> None]
    /\ UNCHANGED <<message_id, send_queue, device_list, store, users, loop,
                   running, sources, issued, returned, handed, received, signals,
                   nstore, nruns, pc, ret, tmp, call, stop_requested, config_file,
                   config_result>>

\* the result codes and texts of the daemon's answers
ResponseCodes == {"m.ok", "m.unknown_device"}

\* the daemon answers a command it took from send_queue: a DaemonResponse
\* with the command's message_id and pan_user
DaemonRespond ==
    \E i \in 1..Len(handed), code \in ResponseCodes :
        DaemonPut([type |-> "DaemonResponse",
                   message_id |-> handed[i].message_id,
                   pan_user |-> handed[i].pan_user,
                   code |-> code, message |-> "answer"])

\* the daemon rewrites the devices in the store
StoreChange ==
    /\ nstore < MaxStoreChanges
    /\ \E s \in Snapshots \ {store} : store' = s
    /\ nstore' = nstore + 1
    /\ last' = [op |-> "StoreChange", args |-> <<>>, result |-> None]
    /\ UNCHANGED <<message_id, send_queue, receive_queue, unfinished_tasks,
                   device_list, users, loop, running, sources, issued, returned,
                   handed, received, signals, nruns, pc, ret, tmp, call, stop_requested, config_file,
                   config_result>>

\* ------------------------------------------------------------------ GlibT
\* the reload left out: device_list keeps its value
update_devices_stale == device_list

\* Devices.update_devices: the value assigned to device_list
update_devices == load_all_devices

\* the reload also taken for UpdateUsersMessage
RefreshesUsers(message) ==
    message.type \in {"UpdateDevicesMessage", "UpdateUsersMessage"}

\* line 323: the branch that reloads the device list
Refreshes(message) == message.type = "UpdateDevicesMessage"

\* lines 326, 334, 343, 351: the branches that emit a signal
Emits(message) ==
    message.type \in {"InviteSasSignal", "ShowSasSignal", "SasDoneSignal",
                      "DaemonResponse"}

\* the invitation branch emitting the cancellation signal
SignalInviteAsCancel(message) ==
    CASE message.type = "InviteSasSignal" ->
            [signal |-> "VerificationCancel",
             args |-> <<message.pan_user, message.user_id, message.device_id,
                        message.transaction_id>>]
      [] message.type = "ShowSasSignal" ->
            [signal |-> "VerificationString",
             args |-> <<message.pan_user, message.user_id, message.device_id,
                        message.transaction_id, message.emoji>>]
      [] message.type = "SasDoneSignal" ->
            [signal |-> "VerificationDone",
             args |-> <<message.pan_user, message.user_id, message.device_id,
                        message.transaction_id>>]
      [] message.type = "DaemonResponse" ->
            [signal |-> "Response",
             args |-> <<message.message_id, message.pan_user,
                        [code |-> message.code, message |-> message.message]>>]

\* the response branch emitting another message_id
SignalResponseNextId(message) ==
    CASE message.type = "InviteSasSignal" ->
            [signal |-> "VerificationInvite",
             args |-> <<message.pan_user, message.user_id, message.device_id,
                        message.transaction_id>>]
      [] message.type = "ShowSasSignal" ->
            [signal |-> "VerificationString",
             args |-> <<message.pan_user, message.user_id, message.device_id,
                        message.transaction_id, message.emoji>>]
      [] message.type = "SasDoneSignal" ->
            [signal |-> "VerificationDone",
             args |-> <<message.pan_user, message.user_id, message.device_id,
                        message.transaction_id>>]
      [] message.type = "DaemonResponse" ->
            [signal |-> "Response",
             args |-> <<message.message_id + 1, message.pan_user,
                        [code |-> message.code, message |-> message.message]>>]

\* the signal and the arguments of the branch taken
Signal(message) ==
    CASE message.type = "InviteSasSignal" ->
            [signal |-> "VerificationInvite",
             args |-> <<message.pan_user, message.user_id, message.device_id,
                        message.transaction_id>>]
      [] message.type = "ShowSasSignal" ->
            [signal |-> "VerificationString",
             args |-> <<message.pan_user, message.user_id, message.device_id,
                        message.transaction_id, message.emoji>>]
      [] message.type = "SasDoneSignal" ->
            [signal |-> "VerificationDone",
             args |-> <<message.pan_user, message.user_id, message.device_id,
                        message.transaction_id>>]
      [] message.type = "DaemonResponse" ->
            [signal |-> "Response",
             args |-> <<message.message_id, message.pan_user,
                        [code |-> message.code, message |-> message.message]>>]

\* queue.Queue.task_done
TaskDone(n) == n - 1

\* every pending message taken off the queue at once
GetNowaitDrain(queue) == [message |-> Head(queue), queue |-> <<>>]

\* queue.Queue.get_nowait on a queue that is not empty: the message taken and
\* the queue left
GetNowait(queue) == [message |-> Head(queue), queue |-> Tail(queue)]

\* The branch taken calls the store or the bus, and that call can raise.
Outcomes(message) ==
    IF Refreshes(message) \/ Emits(message) THEN {FALSE, TRUE} ELSE {FALSE}

\* GlibT.message_callback, one invocation by the GLib timeout.  It returns
\* True, which keeps the timeout source; an exception leaving the callback
\* makes GLib drop the source.
message_callback ==
    /\ running
    /\ sources > 0
    /\ IF receive_queue = <<>>
       THEN /\ last' = [op |-> "message_callback", args |-> <<>>,
                        result |-> "True"]
            /\ UNCHANGED <<receive_queue, unfinished_tasks, device_list,
                           sources, received, signals>>
       ELSE LET message == GetNowait(receive_queue).message
            IN  /\ receive_queue' = GetNowait(receive_queue).queue
                /\ \E raises \in Outcomes(message) :
                     /\ received' = Append(received, [message |-> message,
                                                      raised |-> raises])
                     /\ IF raises
                        THEN /\ sources' = sources - 1
                             /\ last' = [op |-> "message_callback",
                                         args |-> <<message>>,
                                         result |-> "raise"]
                             /\ UNCHANGED <<unfinished_tasks, device_list,
                                            signals>>
                        ELSE /\ device_list' = IF Refreshes(message)
                                               THEN update_devices
                                               ELSE device_list
                             /\ signals' = IF Emits(message)
                                           THEN Append(signals, Signal(message))
                                           ELSE signals
                             /\ unfinished_tasks' = TaskDone(unfinished_tasks)
                             /\ last' = [op |-> "message_callback",
                                         args |-> <<message>>,
                                         result |-> "True"]
                             /\ UNCHANGED sources
    /\ UNCHANGED <<message_id, send_queue, store, users, loop, running,
                   issued, returned, handed, nstore, nruns, pc, ret, tmp, call, stop_requested, config_file,
                   config_result>>

\* GlibT.run: a new main loop, one more timeout source, the loop iterates
run ==
    /\ ~running
    /\ nruns < MaxRuns
    /\ loop' = "MainLoop"
    /\ sources' = sources + 1
    /\ running' = TRUE
    /\ nruns' = nruns + 1
    /\ last' = [op |-> "run", args |-> <<>>, result |-> None]
    /\ UNCHANGED <<message_id, send_queue, receive_queue, unfinished_tasks,
                   device_list, store, users, issued, returned, handed, received,
                   signals, nstore, pc, ret, tmp, call, stop_requested, config_file,
                   config_result>>

\* GlibT.stop
stop ==
    /\ IF loop # None
       THEN /\ running' = FALSE
            /\ loop' = None
       ELSE UNCHANGED <<loop, running>>
    /\ stop_requested' = TRUE
    /\ last' = [op |-> "stop", args |-> <<>>, result |-> None]
    /\ UNCHANGED <<message_id, send_queue, receive_queue, unfinished_tasks,
                   device_list, store, users, sources, issued, returned, handed,
                   received, signals, nstore, nruns, pc, ret, tmp, call, config_file, config_result>>

\* ------------------------------------------------- concurrent client calls
\* A command method run by client thread t, one step per access to the shared
\* counter: line 30 reads _message_id into ret, line 31 loads _message_id and
\* then stores the sum; the method then puts the message and returns.
ThreadFrame ==
    UNCHANGED <<receive_queue, unfinished_tasks, device_list, store, users,
                loop, running, sources, handed, received, signals, nstore,
                nruns, stop_requested, config_file,
                   config_result>>

NumBegun == Len(returned) + Cardinality({t \in Callers : pc[t] # "idle"})

CallBegin(t) ==
    /\ pc[t] = "idle"
    /\ NumBegun < MaxCalls
    /\ \E op \in CommandOps :
         call' = [call EXCEPT ![t] =
                    [op |-> op, pan_user |-> "alice",
                     args |-> IF op \in ControlOps THEN <<"/tmp/k.txt", "pw">>
                              ELSE <<"@bob", "DEV1">>]]
    /\ pc' = [pc EXCEPT ![t] = "read"]
    /\ UNCHANGED <<message_id, send_queue, issued, returned, last, ret, tmp>>
    /\ ThreadFrame

CounterRead(t) ==
    /\ pc[t] = "read"
    /\ ret' = [ret EXCEPT ![t] = IdCounterRet(message_id)]
    /\ issued' = Append(issued, IdCounterRet(message_id))
    /\ pc' = [pc EXCEPT ![t] = "load"]
    /\ UNCHANGED <<message_id, send_queue, returned, last, tmp, call>>
    /\ ThreadFrame

CounterLoad(t) ==
    /\ pc[t] = "load"
    /\ tmp' = [tmp EXCEPT ![t] = message_id]
    /\ pc' = [pc EXCEPT ![t] = "store"]
    /\ UNCHANGED <<message_id, send_queue, issued, returned, last, ret, call>>
    /\ ThreadFrame

CounterStore(t) ==
    /\ pc[t] = "store"
    /\ message_id' = IdCounterNext(tmp[t])
    /\ pc' = [pc EXCEPT ![t] = "put"]
    /\ UNCHANGED <<send_queue, issued, returned, last, ret, tmp, call>>
    /\ ThreadFrame

CallReturn(t) ==
    /\ pc[t] = "put"
    /\ LET message == Message(MessageClass(call[t].op), ret[t],
                              call[t].pan_user, call[t].args)
       IN  /\ send_queue' = Put(send_queue, message)
           /\ returned' = Append(returned, message.message_id)
           /\ last' = [op |-> call[t].op,
                       args |-> <<call[t].pan_user>> \o call[t].args,
                       result |-> message.message_id]
    /\ pc' = [pc EXCEPT ![t] = "idle"]
    /\ UNCHANGED <<message_id, issued, ret, tmp, call>>
    /\ ThreadFrame

\* --------------------------------------------------------- specifications
\* Construction over a store that holds a device for every user.
LoadedSnapshot ==
    [p \in StorePanUsers |-> [u \in UserIds |->
        [d \in DeviceIds |-> Device(u, d)]]]

InitLoaded == Init /\ store = LoadedSnapshot

\* a configuration file about to be read
InitConfig ==
    /\ InitBridge
    /\ store = LoadedSnapshot
    /\ config_file \in ConfigFiles
    /\ config_result = NotRead

Calls ==
    \/ ExportKeys
    \/ ImportKeys
    \/ Verify
    \/ UnVerify
    \/ StartKeyVerification
    \/ CancelKeyVerification
    \/ ConfirmKeyVerification
    \/ AcceptKeyVerification

Reads ==
    \/ ListUsers
    \/ List
    \/ ListUserDevices

NumEvents == Len(received) + Len(receive_queue)

NumInputs == Len(returned) + NumEvents + nstore

\* The two interfaces called one call at a time, and the daemon consuming.
NextSurface ==
    \/ Len(returned) < MaxCalls /\ Calls
    \/ Reads
    \/ DaemonGet

SpecSurface == InitLoaded /\ [][NextSurface]_vars

\* The daemon's messages dispatched by the GLib callback.
NextDispatch ==
    \/ NumEvents < MaxEvents /\ \E message \in Events : DaemonPut(message)
    \/ message_callback
    \/ run

SpecDispatch == InitLoaded /\ [][NextDispatch]_vars

\* The device list cache against the store, constructed over any store.
NextCache ==
    \/ NumEvents < MaxEvents /\ DaemonPut(UpdateDevicesMessage)
    \/ StoreChange
    \/ message_callback
    \/ run
    \/ List
    \/ ListUserDevices

SpecCache == Init /\ [][NextCache]_vars

\* Command methods called from several client threads at once.
NextConc ==
    \E t \in Callers :
        \/ CallBegin(t)
        \/ CounterRead(t)
        \/ CounterLoad(t)
        \/ CounterStore(t)
        \/ CallReturn(t)

SpecConc == InitLoaded /\ [][NextConc]_vars

\* The whole bridge.
Next ==
    \/ NumInputs < MaxInputs /\ Calls
    \/ NumInputs < MaxInputs /\ \E message \in Events : DaemonPut(message)
    \/ NumInputs < MaxInputs /\ StoreChange
    \/ DaemonGet
    \/ message_callback
    \/ run
    \/ stop

Spec == InitLoaded /\ [][Next]_vars

\* Commands issued, taken by the daemon and answered, the answers dispatched.
NextRespond ==
    \/ Len(returned) < MaxInputs /\ Calls
    \/ DaemonGet
    \/ NumEvents < MaxInputs /\ DaemonRespond
    \/ message_callback
    \/ run

SpecRespond == InitLoaded /\ [][NextRespond]_vars

\* Calls with well-formed and with malformed arguments, the daemon consuming.
NextMalformed ==
    \/ Len(returned) < MaxInputs /\ Calls
    \/ Len(returned) < MaxInputs /\ MalformedCall
    \/ DaemonGet

SpecMalformed == InitLoaded /\ [][NextMalformed]_vars

\* A configuration file read once.
NextConfig == read

SpecConfig == InitConfig /\ [][NextConfig]_vars

\* ------------------------------------------------------------- properties
AllCommands == handed \o send_queue

Distinct(s) == \A i, j \in 1..Len(s) : i # j => s[i] # s[j]

Increasing(s) == \A i \in 1..(Len(s) - 1) : s[i] < s[i + 1]

\* C1: ids returned by calls running concurrently on Control and Devices are
\* pairwise distinct, and strictly increasing in the order they were issued.
C1_ConcurrentIdsDistinct == Distinct(returned) /\ Increasing(issued)

\* C2: with the calls made one at a time, the first command call returns 0 and
\* each later one returns one more than the call before it, on whichever
\* interface; the counter is never reset.
C2_SequentialIds ==
    /\ \A i \in 1..Len(returned) : returned[i] = i - 1
    /\ message_id = Len(returned)

C2_Witness ==
    /\ Len(AllCommands) >= 2
    /\ AllCommands[1].type = "ExportKeysMessage"
    /\ AllCommands[2].type = "DeviceVerifyMessage"
    /\ returned[2] = 1

\* the tag of the command each operation issues
C3_Tag(op) ==
    CASE op = "ExportKeys" -> "ExportKeysMessage"
      [] op = "ImportKeys" -> "ImportKeysMessage"
      [] op = "Verify" -> "DeviceVerifyMessage"
      [] op = "UnVerify" -> "DeviceUnverifyMessage"
      [] op = "StartKeyVerification" -> "StartSasMessage"
      [] op = "CancelKeyVerification" -> "CancelSasMessage"
      [] op = "AcceptKeyVerification" -> "AcceptSasMessage"
      [] op = "ConfirmKeyVerification" -> "ConfirmSasMessage"

C3_Step ==
    Len(returned') = Len(returned) + 1 =>
        /\ last'.op \in CommandOps
        /\ returned'[Len(returned')] = last'.result
        /\ send_queue' =
             Append(send_queue,
                    [type |-> C3_Tag(last'.op),
                     message_id |-> last'.result,
                     pan_user |-> last'.args[1],
                     args |-> <<last'.args[2], last'.args[3]>>])

\* C3: every command call appends exactly one command to the tail of
\* send_queue, with the operation's own tag, the call's arguments and the id
\* the call returns.
C3_OneCommandPerCall == [][C3_Step]_vars

C3_Witness ==
    /\ last.op = "AcceptKeyVerification"
    /\ Len(send_queue) = 1
    /\ Len(handed) = 1
    /\ send_queue[1].type = "AcceptSasMessage"
    /\ send_queue[1].message_id = 1

\* the notification the interface defines for a message of the daemon
Notification(message) ==
    CASE message.type = "InviteSasSignal" ->
            [signal |-> "VerificationInvite",
             args |-> <<message.pan_user, message.user_id, message.device_id,
                        message.transaction_id>>]
      [] message.type = "ShowSasSignal" ->
            [signal |-> "VerificationString",
             args |-> <<message.pan_user, message.user_id, message.device_id,
                        message.transaction_id, message.emoji>>]
      [] message.type = "verification-cancelled" ->
            [signal |-> "VerificationCancel",
             args |-> <<message.pan_user, message.user_id, message.device_id,
                        message.transaction_id, message.reason,
                        message.code>>]
      [] message.type = "SasDoneSignal" ->
            [signal |-> "VerificationDone",
             args |-> <<message.pan_user, message.user_id, message.device_id,
                        message.transaction_id>>]
      [] message.type = "DaemonResponse" ->
            [signal |-> "Response",
             args |-> <<message.message_id, message.pan_user,
                        [code |-> message.code, message |-> message.message]>>]

SasTypes == {"InviteSasSignal", "ShowSasSignal", "verification-cancelled",
             "SasDoneSignal"}
NotifiedTypes == SasTypes \cup {"DaemonResponse"}
VerificationSignals == {"VerificationInvite", "VerificationString",
                        "VerificationCancel", "VerificationDone"}

NoneRaised == \A i \in 1..Len(received) : ~received[i].raised

OnlyNotified ==
    \A i \in 1..Len(received) : received[i].message.type \in NotifiedTypes

\* C4: N events dispatched one tick at a time give N notifications, each with
\* the payload of its event, in arrival order.  Stated for the events that
\* have a notification (device-list-changed reloads the cache instead) and
\* for dispatches that did not raise.
C4_NEventsNNotifications ==
    (NoneRaised /\ OnlyNotified) =>
        /\ Len(signals) = Len(received)
        /\ \A i \in 1..Len(received) :
             signals[i] = Notification(received[i].message)

SasReceived == SelectSeq(received, LAMBDA r : r.message.type \in SasTypes)

SasSignals == SelectSeq(signals, LAMBDA g : g.signal \in VerificationSignals)

\* C5: every verification event taken from receive_queue is relayed exactly
\* once as its matching signal, in the order received, and no verification
\* signal is emitted without an event.  Stated for dispatches that did not
\* raise.
C5_SasRelayedOnce ==
    NoneRaised =>
        SasSignals = [i \in 1..Len(SasReceived) |->
                        Notification(SasReceived[i].message)]

\* C6: every message taken by message_callback has task_done recorded for it,
\* whatever the outcome of its dispatch.
C6_TaskDoneAlways == unfinished_tasks = Len(receive_queue)

\* the devices the store (or a cache) holds for a pan user; for one user
DevicesOf(st, pan_user) ==
    IF pan_user \in DOMAIN st
    THEN UNION {{st[pan_user][u][d] : d \in DOMAIN st[pan_user][u]}
                : u \in DOMAIN st[pan_user]}
    ELSE {}

DevicesOfUser(st, pan_user, user_id) ==
    IF pan_user \in DOMAIN st
    THEN IF user_id \in DOMAIN st[pan_user]
         THEN {st[pan_user][user_id][d] : d \in DOMAIN st[pan_user][user_id]}
         ELSE {}
    ELSE {}

Exactly(seq, set) == Range(seq) = set /\ Len(seq) = Cardinality(set)

Refreshed ==
    \/ last.op = "__init__"
    \/ /\ last.op = "message_callback"
       /\ last.args # <<>>
       /\ last.result = "True"
       /\ last.args[1].type = "UpdateDevicesMessage"

C7_Step ==
    /\ Refreshed' =>
         \A p \in PanUsers :
             Exactly(DevicesList(device_list', p), DevicesOf(store', p))
    /\ (Refreshed /\ last'.op = "List") =>
         Exactly(last'.result, DevicesOf(store, last'.args[1]))

\* C7: after update_devices has run, List(pan_user) returns exactly the
\* devices the store holds for that pan user, across all its users, each
\* once; it returns the empty list for a pan user the store does not have.
C7_ListAfterRefresh == [][C7_Step]_vars

C7_Witness ==
    /\ last.op = "List"
    /\ last.args = <<"alice">>
    /\ Len(last.result) = 2
    /\ nstore = 1
    /\ Len(received) = 1
    /\ device_list = store

\* C8: ListUserDevices(pan_user, user_id) returns exactly the cached devices
\* of that user for that pan user, and the empty list when the pan user is
\* not cached, the user is not in its entry or the user has no devices.
C8_ListUserDevices ==
    last.op = "ListUserDevices" =>
        /\ Exactly(last.result,
                   DevicesOfUser(device_list, last.args[1], last.args[2]))
        /\ (\/ last.args[1] \notin DOMAIN device_list
            \/ last.args[2] \notin DOMAIN device_list[last.args[1]]
            \/ DOMAIN device_list[last.args[1]][last.args[2]] = {})
              => last.result = <<>>

C8_Witness ==
    /\ last.op = "ListUserDevices"
    /\ last.args = <<"alice", "@bob">>
    /\ last.result = <<Device("@bob", "DEV1")>>
    /\ "@carol" \in DOMAIN device_list["alice"]

C9_Step ==
    /\ device_list' # device_list =>
         /\ last'.op = "message_callback"
         /\ last'.args # <<>>
         /\ last'.args[1].type = "UpdateDevicesMessage"
    /\ Len(returned') = Len(returned) + 1 =>
         \A p \in PanUsers, u \in UserIds :
            /\ DevicesList(device_list', p) = DevicesList(device_list, p)
            /\ DevicesListUserDevices(device_list', p, u) =
                 DevicesListUserDevices(device_list, p, u)

\* C9: the device list cache changes only when an UpdateDevicesMessage is
\* dispatched; the command calls and the dispatch of every other message
\* leave it as it was, so List and ListUserDevices return after Verify or
\* UnVerify what they returned before.
C9_CacheChangesOnlyByRefresh == [][C9_Step]_vars

C9_Witness ==
    /\ last.op = "Verify"
    /\ device_list # store
    /\ Len(DevicesList(device_list, "alice")) = 2

C10_Step ==
    last'.op = "message_callback" =>
        /\ Len(receive_queue') >= Len(receive_queue) - 1
        /\ Len(received') <= Len(received) + 1
        /\ receive_queue = <<>> =>
             /\ receive_queue' = <<>>
             /\ received' = received
             /\ signals' = signals
             /\ device_list' = device_list
             /\ unfinished_tasks' = unfinished_tasks
             /\ sources' = sources
             /\ running' = running
             /\ last'.result = "True"

\* C10: an invocation of message_callback takes at most one message from
\* receive_queue; on an empty queue it emits nothing, reloads nothing,
\* records no task_done and stays scheduled.
C10_AtMostOnePerTick == [][C10_Step]_vars

C10_Witness ==
    /\ last.op = "message_callback"
    /\ last.args = <<>>
    /\ Len(received) = 2
    /\ sources = 1

\* C11: once stop() has been requested no message is taken from
\* receive_queue any more, whether stop() came before run() created the loop
\* or run() is called again after it.
C11_NoDequeueAfterStop == [][stop_requested => received' = received]_vars

ResponsesRelayed ==
    SelectSeq(received,
              LAMBDA r : r.message.type = "DaemonResponse" /\ ~r.raised)

ResponseSignals == SelectSeq(signals, LAMBDA g : g.signal = "Response")

\* C13: each DaemonResponse dispatched is emitted as one Response signal with
\* the message's message_id, pan_user, code and message unchanged; with a
\* daemon that answers only commands it took from send_queue, every Response
\* id is an id a call has already returned.
C13_ResponseEchoesIssuedId ==
    /\ ResponseSignals = [i \in 1..Len(ResponsesRelayed) |->
                            Notification(ResponsesRelayed[i].message)]
    /\ \A k \in 1..Len(ResponseSignals) :
         ResponseSignals[k].args[1] \in Range(returned)

C13_Witness ==
    /\ Len(returned) = 2
    /\ Len(ResponseSignals) = 2
    /\ ResponseSignals[1].args[1] = 1
    /\ ResponseSignals[1].args[3].code = "m.unknown_device"
    /\ ResponseSignals[2].args[1] = 0

\* C14: the commands the daemon has taken, followed by those still on
\* send_queue, are the commands the calls enqueued, each once and in the order
\* of the calls: none reordered, duplicated, lost or removed, also after
\* CancelKeyVerification.
C14_FifoHandOver ==
    /\ Len(AllCommands) = Len(returned)
    /\ \A i \in 1..Len(AllCommands) : AllCommands[i].message_id = returned[i]
    /\ \A i \in 1..Len(handed) : handed[i].message_id = issued[i]

C14_Witness ==
    /\ Len(handed) = 2
    /\ Len(send_queue) = 1
    /\ handed[1].type = "StartSasMessage"
    /\ handed[2].type = "CancelSasMessage"
    /\ send_queue[1].type = "ExportKeysMessage"

\* section i of the file resolves to a listen pair
Resolves(file, i) ==
    ~parse_address_raises(Get(file, i, "ListenAddress"))

ListenPair(file, i) ==
    <<parse_address(Get(file, i, "ListenAddress")),
      getint(Get(file, i, "ListenPort"))>>

SamePair(file) ==
    \E i, j \in 1..Len(file.sections) :
        /\ i # j
        /\ Resolves(file, i)
        /\ Resolves(file, j)
        /\ ListenPair(file, i) = ListenPair(file, j)

\* C15: read() ends in PanConfigError whenever two sections of the file
\* resolve to the same listen pair, in whatever order and also when the pairs
\* are equal only through the defaults or the localhost mapping; it reports
\* no duplicate when all pairs differ.
C15_DuplicateListenRejected ==
    config_result.error # "unread" =>
        /\ SamePair(config_file) => config_result.error = "PanConfigError"
        /\ ~SamePair(config_file) => config_result.why # "duplicate"

ReadOps == {"ListUsers", "List", "ListUserDevices"}

C16_Step ==
    /\ users' = users
    /\ last'.op \in ReadOps =>
         /\ send_queue' = send_queue
         /\ message_id' = message_id
         /\ issued' = issued
         /\ device_list' = device_list
    /\ last'.op = "ListUsers" => last'.result = users

\* C16: a call of ListUsers, List or ListUserDevices puts nothing on
\* send_queue, leaves the id counter and the device list as they were, and
\* ListUsers returns the users loaded at construction, which never change.
C16_ReadsArePure == [][C16_Step]_vars

C16_Witness ==
    /\ last.op = "ListUsers"
    /\ last.result = users
    /\ message_id = 2
    /\ Len(send_queue) = 1
    /\ Len(handed) = 1

WellFormed(message) ==
    /\ message.pan_user \in PanUsers
    /\ message.args \in KeyArgs \cup DeviceArgs

\* C17: a command method called with malformed arguments puts no command on
\* send_queue, so none reaches the daemon: every command enqueued or handed
\* over has well-formed arguments.
C17_MalformedNotEnqueued ==
    \A i \in 1..Len(AllCommands) : WellFormed(AllCommands[i])

\* C18: with the loop running and no stop requested, a message waiting on
\* receive_queue can still be taken: message_callback is still scheduled,
\* whatever happened to the messages dispatched before.
C18_NeverStalled ==
    (running /\ ~stop_requested /\ receive_queue # <<>>) => sources > 0

Dispatched(type) ==
    /\ Len(received') = Len(received) + 1
    /\ received'[Len(received')].message.type = type

\* C19: once an UpdateDevicesMessage queued after a change of the store is
\* dispatched, the device list holds the devices of the store as of that
\* dispatch.
C19_RefreshedOnDispatch ==
    [][Dispatched("UpdateDevicesMessage") =>
         \A p \in PanUsers :
             Exactly(DevicesList(device_list', p), DevicesOf(store, p))]_vars

====
